---- MODULE Spec2Model ----
(***************************************************************************)
(* Model of MicrosoftToDoTreeDataProvider (src/unnamed/part_000): the lazy *)
(* tree expansion (getChildren), the batched toggle mutations              *)
(* (changeCompletedState, changeImportanceState), the five commands and    *)
(* the tree items (getTreeItem), with the remote To Do service and the     *)
(* client factory as the environment; and of the task details panel        *)
(* (src/webviews/taskDetailsView/main.js).                                 *)
(***************************************************************************)
EXTENDS Integers, Sequences, FiniteSets, TLC

VARIABLES
    remote,             \* the service's tasks: task id -> [status, importance]
    calls,              \* every async call of the provider, in start order
    requests,           \* every gateway request issued, in issue order
    didChangeTreeData,  \* every event fired on the emitter, in fire order
    known,              \* the nodes the display host has been handed so far
    registered,         \* the command ids registered with the host
    refreshCommand,     \* the provider's field: the command handle it holds
    disposed,           \* whether dispose() has been called
    invoked,            \* the command the host invoked last, with its arguments
    treeItem,           \* the element last rendered and the tree item made of it
    panel               \* the task details panel: its fields, buttons and messages

provider == <<remote, calls, requests, didChangeTreeData, known>>
commands == <<registered, refreshCommand, disposed, invoked>>
outside == <<commands, treeItem, panel>>
vars == <<provider, outside>>

----------------------------------------------------------------------------
(* Bounds *)

MaxCalls == 4       \* calls of the provider the host starts in one behaviour
MaxBatch == 3       \* longest multi-selection handed to a toggle mutation
MaxRounds == 2      \* re-expand-then-toggle rounds of the host of FreshSpec
MaxTitle == 2       \* longest title or display name of a rendered node
MaxRefresh == 2     \* invocations of the refresh command by the host of RefreshSpec

----------------------------------------------------------------------------
(* The remote service *)

TaskOrder == <<"T1", "T2", "T3", "T4">>
TaskIds == {TaskOrder[i] : i \in 1..Len(TaskOrder)}
ListOf(t) == IF t = "T4" THEN "L2" ELSE "L1"

InitRemote ==
    [t \in TaskIds |->
        [status |-> IF t = "T4" THEN "completed" ELSE "notStarted",
         importance |-> IF t = "T2" THEN "high" ELSE "normal"]]

\* what '/me/todo/lists' may answer: N >= 0 lists in the service's order
ListSeqs == {<<>>, <<"L1", "L2">>, <<"L2", "L1">>}

ListEntity(l) == [id |-> l]
TaskEntity(t, r) == [id |-> t, status |-> r[t].status, importance |-> r[t].importance]

RECURSIVE SelectTasks(_, _, _, _)
SelectTasks(i, l, cmp, r) ==
    IF i > Len(TaskOrder) THEN <<>>
    ELSE LET t == TaskOrder[i]
             hit == /\ ListOf(t) = l
                    /\ IF cmp = "eq" THEN r[t].status = "completed"
                                     ELSE r[t].status # "completed"
         IN  (IF hit THEN <<TaskEntity(t, r)>> ELSE <<>>) \o SelectTasks(i + 1, l, cmp, r)

\* the service's answers to a GET of `path` (a template string, as its pieces)
Serve(path, r) ==
    IF path = <<"/me/todo/lists">>
    THEN {[i \in 1..Len(s) |-> ListEntity(s[i])] : s \in ListSeqs}
    ELSE IF Len(path) = 5 /\ path[1] = "/me/todo/lists/"
                          /\ path[3] = "/tasks?$filter= status "
                          /\ path[5] = " 'completed'"
    THEN {SelectTasks(1, path[2], path[4], r)}
    ELSE {<<>>}

\* the service's state after a successful PATCH of `path` with `body`
Patched(path, body, r) ==
    IF Len(path) = 4 /\ path[1] = "/me/todo/lists/" /\ path[3] = "/tasks/"
                     /\ path[4] \in TaskIds /\ ListOf(path[4]) = path[2]
    THEN [r EXCEPT ![path[4]] =
            [f \in DOMAIN r[path[4]] |->
                IF f \in DOMAIN body THEN body[f] ELSE r[path[4]][f]]]
    ELSE r

----------------------------------------------------------------------------
(* Nodes of the tree: ToDoEntity *)

Undefined == [nodeType |-> "undefined"]
ListNode(entity) == [nodeType |-> "list", entity |-> entity]
CreateListNode == [nodeType |-> "create-list"]
TaskStatusType == [completed |-> "Completed", inProgress |-> "In Progress"]
\* getChildren is the closure () => getTasks(getCompleted), which captures element
StatusNode(statusType, getCompleted, element) ==
    [nodeType |-> "status", statusType |-> statusType,
     getChildren |-> [getCompleted |-> getCompleted, element |-> element]]
TaskNode(entity, parent) == [nodeType |-> "task", entity |-> entity, parent |-> parent]

NoBody == [absent |-> TRUE]
NoResult == [defined |-> FALSE, nodes |-> <<>>]
Result(nodes) == [defined |-> TRUE, nodes |-> nodes]

Range(s) == {s[i] : i \in 1..Len(s)}

----------------------------------------------------------------------------
(* Bookkeeping of calls and requests *)

Call(op, element, nodes) ==
    [op |-> op, element |-> element, nodes |-> nodes, pc |-> "getClient",
     client |-> "unset", result |-> NoResult]

Request(c, i, method, path, body) ==
    [call |-> c, idx |-> i, method |-> method, path |-> path, body |-> body,
     state |-> "pending", response |-> <<>>]

Settled(c) == calls[c].pc \in {"resolved", "rejected"}
Live(c) == calls[c].op # "taken"
Finished(c) ==
    /\ Live(c) /\ Settled(c)
    /\ \A r \in 1..Len(requests) : requests[r].call = c => requests[r].state # "pending"
Taken ==
    [op |-> "taken", element |-> Undefined, nodes |-> <<>>, pc |-> "taken",
     client |-> "unset", result |-> NoResult]
\* what `await this.clientFactory.getClient()` may yield: a client, or undefined
ClientValue(client) == IF client THEN "client" ELSE "undefined"
IsToggle(c) == calls[c].op \in {"changeCompletedState", "changeImportanceState"}
RequestsOf(c, reqs) == {r \in 1..Len(reqs) : reqs[r].call = c}

\* the nodes the display host holds: whatever resolved expansions handed to it
Handed(c) ==
    IF calls[c].op = "getChildren" /\ calls[c].pc = "resolved"
    THEN Range(calls[c].result.nodes) ELSE {}
Known == known \cup UNION {Handed(c) : c \in 1..Len(calls)}
KnownTasks == {n \in Known : n.nodeType = "task"}
Batches == UNION {[1..k -> KnownTasks] : k \in 0..MaxBatch}
\* the host starts a call once it has taken the outcome of the one before
CanStart ==
    /\ Len(calls) < MaxCalls
    /\ \A c \in 1..Len(calls) : ~Live(c)

----------------------------------------------------------------------------
(* getChildren *)

\* faulty variant: the sentinel is pushed before the lists are mapped
RootNodesSentinelFirst(taskLists) ==
    <<CreateListNode>> \o [i \in 1..Len(taskLists) |-> ListNode(taskLists[i])]

\* lines 158-160: the list nodes in the service's order, then the sentinel
RootNodes(taskLists) ==
    [i \in 1..Len(taskLists) |-> ListNode(taskLists[i])] \o <<CreateListNode>>

\* faulty variant: the comparison operators are exchanged
getTasksPathInverted(element, getCompleted) ==
    <<"/me/todo/lists/", element.entity.id, "/tasks?$filter= status ",
      IF getCompleted THEN "ne" ELSE "eq", " 'completed'">>

\* lines 166-167: the filtered task query of getTasks
getTasksPath(element, getCompleted) ==
    <<"/me/todo/lists/", element.entity.id, "/tasks?$filter= status ",
      IF getCompleted THEN "eq" ELSE "ne", " 'completed'">>

\* faulty variant: the parent is a list node rebuilt from the first task list
TaskNodesFirstList(tasks, element) ==
    [i \in 1..Len(tasks) |-> TaskNode(tasks[i], ListNode(ListEntity("L1")))]

\* lines 169-173: each task wrapped with the expanded list as its parent
TaskNodes(tasks, element) ==
    [i \in 1..Len(tasks) |-> TaskNode(tasks[i], element)]

\* faulty variant: the Completed group is listed first
StatusNodesSwapped(element) ==
    <<StatusNode(TaskStatusType.completed, TRUE, element),
      StatusNode(TaskStatusType.inProgress, FALSE, element)>>

\* lines 176-187: the two status groups of a list, fetch deferred
StatusNodes(element) ==
    <<StatusNode(TaskStatusType.inProgress, FALSE, element),
      StatusNode(TaskStatusType.completed, TRUE, element)>>

\* lines 155-192: the request, if any, that getChildren(element) awaits
getChildrenPath(element) ==
    IF element = Undefined THEN <<"/me/todo/lists">>
    ELSE IF element.nodeType = "status"
    THEN getTasksPath(element.getChildren.element, element.getChildren.getCompleted)
    ELSE <<>>

\* faulty variant: the missing client is not checked
ReturnsEarlyNever(client) == FALSE

\* lines 151-153: without a client the expansion returns before anything else
ReturnsEarly(client) == ~client

\* line 149: the host asks for the children of element; the call suspends on getClient
getChildren(element) ==
    /\ calls' = Append(calls, Call("getChildren", element, <<>>))
    /\ UNCHANGED <<remote, requests, didChangeTreeData, known>>

\* lines 150-192: getClient settles and the expansion runs to its next await or return
getChildrenResume(c, client) ==
    /\ calls[c].op = "getChildren" /\ calls[c].pc = "getClient"
    /\ LET element == calls[c].element
           path == getChildrenPath(element)
       IN  IF ReturnsEarly(client)
           THEN /\ calls' = [calls EXCEPT ![c].pc = "resolved", ![c].result = NoResult,
                                          ![c].client = ClientValue(client)]
                /\ UNCHANGED requests
           ELSE IF path # <<>>
           THEN /\ requests' = Append(requests, Request(c, 1, "GET", path, NoBody))
                /\ calls' = [calls EXCEPT ![c].pc = "getAll", ![c].client = ClientValue(client)]
           ELSE /\ calls' = [calls EXCEPT ![c].pc = "resolved",
                                          ![c].client = ClientValue(client),
                                          ![c].result = IF element.nodeType = "list"
                                                        THEN Result(StatusNodes(element))
                                                        ELSE NoResult]
                /\ UNCHANGED requests
    /\ UNCHANGED <<remote, didChangeTreeData, known>>

\* lines 156-160, 167-173, 191: getAll answers and the expansion returns its nodes
getAllResolves(r) ==
    /\ requests[r].method = "GET" /\ requests[r].state = "pending"
    /\ \E entities \in Serve(requests[r].path, remote) :
         LET c == requests[r].call
             element == calls[c].element
         IN  /\ requests' = [requests EXCEPT ![r].state = "ok", ![r].response = entities]
             /\ calls' = [calls EXCEPT
                    ![c].pc = "resolved",
                    ![c].result = IF element = Undefined
                                  THEN Result(RootNodes(entities))
                                  ELSE Result(TaskNodes(entities, element.getChildren.element))]
    /\ UNCHANGED <<remote, didChangeTreeData, known>>

\* lines 156, 167, 191: getAll throws and nothing catches it
getAllRejects(r) ==
    /\ requests[r].method = "GET" /\ requests[r].state = "pending"
    /\ requests' = [requests EXCEPT ![r].state = "failed"]
    /\ calls' = [calls EXCEPT ![requests[r].call].pc = "rejected"]
    /\ UNCHANGED <<remote, didChangeTreeData, known>>

----------------------------------------------------------------------------
(* changeCompletedState, changeImportanceState *)

\* lines 67, 81: the task addressed by its parent list's id and its own id
TaskPath(n) == <<"/me/todo/lists/", n.parent.entity.id, "/tasks/", n.entity.id>>

\* faulty variant: the toggle sets the status instead of negating it
CompletedPatchSet(n) == [status |-> "completed"]

\* faulty variant: the status sent is the negation of the remote status
CompletedPatchOfRemote(n) ==
    [status |-> IF remote[n.entity.id].status = "completed" THEN "notStarted" ELSE "completed"]

\* line 68: the negation of the status in the node's snapshot
CompletedPatch(n) ==
    [status |-> IF n.entity.status = "completed" THEN "notStarted" ELSE "completed"]

\* line 82: the negation of the importance in the node's snapshot
ImportancePatch(n) ==
    [importance |-> IF n.entity.importance = "high" THEN "normal" ELSE "high"]

\* faulty variant: the whole snapshot is sent back with the toggled field
PatchBodyWhole(op, n) ==
    IF op = "changeCompletedState"
    THEN [status |-> CompletedPatch(n).status, importance |-> n.entity.importance]
    ELSE [status |-> n.entity.status, importance |-> ImportancePatch(n).importance]

PatchBody(op, n) ==
    IF op = "changeCompletedState" THEN CompletedPatch(n) ELSE ImportancePatch(n)

\* faulty variant: only the first patch is launched before the await
LaunchFirstOnly(c, op, nodes, client) ==
    IF client /\ nodes # <<>>
    THEN <<Request(c, 1, "PATCH", TaskPath(nodes[1]), PatchBody(op, nodes[1]))>>
    ELSE <<>>

\* faulty variant: the patches are issued whether or not there is a client
LaunchWithoutClient(c, op, nodes, client) ==
    [i \in 1..Len(nodes) |-> Request(c, i, "PATCH", TaskPath(nodes[i]), PatchBody(op, nodes[i]))]

\* lines 66-71, 80-85: nodes.map runs every callback up to its await, so every
\* patch is issued before anything is awaited; client!.api throws without a client
LaunchPatches(c, op, nodes, client) ==
    IF client
    THEN [i \in 1..Len(nodes) |-> Request(c, i, "PATCH", TaskPath(nodes[i]), PatchBody(op, nodes[i]))]
    ELSE <<>>

\* the promise of the i-th callback of call c, given the requests
PromiseOf(c, i, reqs) ==
    IF \E r \in RequestsOf(c, reqs) : reqs[r].idx = i
    THEN LET r == CHOOSE q \in RequestsOf(c, reqs) : reqs[q].idx = i
         IN  CASE reqs[r].state = "ok" -> "fulfilled"
               [] reqs[r].state = "failed" -> "rejected"
               [] OTHER -> "pending"
    ELSE "rejected"

\* faulty variant: Promise.allSettled, which never rejects
PromiseAllSettled(promises) ==
    IF \A i \in 1..Len(promises) : promises[i] # "pending" THEN "resolved" ELSE "all"

\* faulty variant: Promise.race, settled by the first promise that settles
PromiseRace(promises) ==
    IF \E i \in 1..Len(promises) : promises[i] = "rejected" THEN "rejected"
    ELSE IF promises = <<>> \/ \E i \in 1..Len(promises) : promises[i] = "fulfilled" THEN "resolved"
    ELSE "all"

\* lines 74, 88: Promise.all rejects on the first rejection, resolves when all fulfil
PromiseAll(promises) ==
    IF \E i \in 1..Len(promises) : promises[i] = "rejected" THEN "rejected"
    ELSE IF \A i \in 1..Len(promises) : promises[i] = "fulfilled" THEN "resolved"
    ELSE "all"

AwaitAll(c, reqs) ==
    PromiseAll([i \in 1..Len(calls[c].nodes) |-> PromiseOf(c, i, reqs)])

\* faulty variant: a batch that has already failed fires nothing more
FiredByUnlessRejected(c, i) ==
    IF calls[c].pc = "rejected" THEN <<>>
    ELSE <<[call |-> c, idx |-> i, element |-> calls[c].nodes[i].parent]>>

\* lines 70, 84: what a callback fires once its own patch has returned
FiredBy(c, i) == <<[call |-> c, idx |-> i, element |-> calls[c].nodes[i].parent]>>

\* line 63: the command hands a batch to the completion toggle
changeCompletedState(nodes) ==
    /\ calls' = Append(calls, Call("changeCompletedState", Undefined, nodes))
    /\ UNCHANGED <<remote, requests, didChangeTreeData, known>>

\* line 77: the command hands a batch to the importance toggle
changeImportanceState(nodes) ==
    /\ calls' = Append(calls, Call("changeImportanceState", Undefined, nodes))
    /\ UNCHANGED <<remote, requests, didChangeTreeData, known>>

\* lines 64-74, 78-88: getClient settles, the patches are launched, Promise.all is awaited
changeStateResume(c, client) ==
    /\ IsToggle(c) /\ calls[c].pc = "getClient"
    /\ requests' = requests \o LaunchPatches(c, calls[c].op, calls[c].nodes, client)
    /\ calls' = [calls EXCEPT ![c].pc = AwaitAll(c, requests'),
                              ![c].client = ClientValue(client)]
    /\ UNCHANGED <<remote, didChangeTreeData, known>>

\* lines 67-70, 81-84: one patch returns; its callback fires and its promise fulfils
patchResolves(r) ==
    /\ requests[r].method = "PATCH" /\ requests[r].state = "pending"
    /\ LET c == requests[r].call
       IN  /\ remote' = Patched(requests[r].path, requests[r].body, remote)
           /\ requests' = [requests EXCEPT ![r].state = "ok"]
           /\ didChangeTreeData' = didChangeTreeData \o FiredBy(c, requests[r].idx)
           /\ calls' = [calls EXCEPT ![c].pc = IF Settled(c) THEN @ ELSE AwaitAll(c, requests')]
           /\ UNCHANGED known

\* faulty variant: the signal is fired in a finally block, also when the patch throws
patchRejectsAndFires(r) ==
    /\ requests[r].method = "PATCH" /\ requests[r].state = "pending"
    /\ LET c == requests[r].call
       IN  /\ requests' = [requests EXCEPT ![r].state = "failed"]
           /\ didChangeTreeData' = didChangeTreeData \o FiredBy(c, requests[r].idx)
           /\ calls' = [calls EXCEPT ![c].pc = IF Settled(c) THEN @ ELSE AwaitAll(c, requests')]
    /\ UNCHANGED <<remote, known>>

\* lines 67, 81: one patch throws; its callback's promise rejects
patchRejects(r) ==
    /\ requests[r].method = "PATCH" /\ requests[r].state = "pending"
    /\ LET c == requests[r].call
       IN  /\ requests' = [requests EXCEPT ![r].state = "failed"]
           /\ calls' = [calls EXCEPT ![c].pc = IF Settled(c) THEN @ ELSE AwaitAll(c, requests')]
    /\ UNCHANGED <<remote, didChangeTreeData, known>>

\* the display host takes the outcome of a finished call: the nodes of a
\* resolved expansion join its tree, and the call is over
take(c) ==
    /\ Finished(c)
    /\ known' = known \cup Handed(c)
    /\ calls' = [calls EXCEPT ![c] = Taken]
    /\ requests' = SelectSeq(requests, LAMBDA q : q.call # c)
    /\ didChangeTreeData' = SelectSeq(didChangeTreeData, LAMBDA e : e.call # c)
    /\ UNCHANGED remote

----------------------------------------------------------------------------
(* The commands and dispose *)

\* lines 42-60: the commands ('microsoft-todo-unoffcial.' + id), in the order
\* the constructor registers them
CommandIds == <<"refreshList", "complete", "uncomplete", "star", "unstar">>

\* lines 39-61: the constructor registers every command and assigns each
\* handle to the one field, so the field ends up holding the last handle
Constructed ==
    [registered |-> Range(CommandIds), refreshCommand |-> CommandIds[Len(CommandIds)]]

\* the optional second argument of a command: the multi-selection, or undefined
NotProvided == [provided |-> FALSE, nodes |-> <<>>]
Provided(nodes) == [provided |-> TRUE, nodes |-> nodes]
Selections == {NotProvided} \cup {Provided(nodes) : nodes \in Batches}

NoCommand == [command |-> "none", node |-> Undefined, nodes |-> NotProvided]
Invocation(command, node, nodes) == [command |-> command, node |-> node, nodes |-> nodes]

\* faulty variant: the multi-selection is ignored
CommandBatchSingle(node, nodes) == <<node>>

\* lines 48, 52, 56, 60: `nodes ? nodes : [node]`; any array, even an empty
\* one, is truthy
CommandBatch(node, nodes) == IF nodes.provided THEN nodes.nodes ELSE <<node>>

\* lines 46-48: the handler of 'complete'
complete(node, nodes) ==
    /\ "complete" \in registered
    /\ invoked' = Invocation("complete", node, nodes)
    /\ changeCompletedState(CommandBatch(node, nodes))
    /\ UNCHANGED <<registered, refreshCommand, disposed, treeItem, panel>>

\* lines 50-52: the handler of 'uncomplete'
uncomplete(node, nodes) ==
    /\ "uncomplete" \in registered
    /\ invoked' = Invocation("uncomplete", node, nodes)
    /\ changeCompletedState(CommandBatch(node, nodes))
    /\ UNCHANGED <<registered, refreshCommand, disposed, treeItem, panel>>

\* lines 54-56: the handler of 'star'
star(node, nodes) ==
    /\ "star" \in registered
    /\ invoked' = Invocation("star", node, nodes)
    /\ changeImportanceState(CommandBatch(node, nodes))
    /\ UNCHANGED <<registered, refreshCommand, disposed, treeItem, panel>>

\* lines 58-60: the handler of 'unstar'
unstar(node, nodes) ==
    /\ "unstar" \in registered
    /\ invoked' = Invocation("unstar", node, nodes)
    /\ changeImportanceState(CommandBatch(node, nodes))
    /\ UNCHANGED <<registered, refreshCommand, disposed, treeItem, panel>>

\* faulty variant: the refresh always invalidates the whole tree
FiredByRefreshAll(element) == <<[call |-> 0, idx |-> 0, element |-> Undefined]>>

\* line 44: this.didChangeTreeData.fire(element), by no call of the provider
FiredByRefresh(element) == <<[call |-> 0, idx |-> 0, element |-> element]>>

\* lines 42-44: the handler of 'refreshList'; element is a node or undefined
refreshList(element) ==
    /\ "refreshList" \in registered
    /\ invoked' = Invocation("refreshList", element, NotProvided)
    /\ didChangeTreeData' = didChangeTreeData \o FiredByRefresh(element)
    /\ UNCHANGED <<remote, calls, requests, known>>
    /\ UNCHANGED <<registered, refreshCommand, disposed, treeItem, panel>>

\* lines 195-197: dispose() disposes the handle the field holds
dispose ==
    /\ registered' = registered \ {refreshCommand}
    /\ disposed' = TRUE
    /\ UNCHANGED <<provider, refreshCommand, invoked, treeItem, panel>>

----------------------------------------------------------------------------
(* getTreeItem *)

\* a string is the sequence of its characters; undefined is no string
Missing == <<"undefined">>
\* lines 102, 105, 110, 117: a string is truthy unless undefined or empty
Truthy(s) == s # Missing /\ s # <<>>
\* lines 102, 105: `s || ""`
OrEmpty(s) == IF Truthy(s) THEN s ELSE <<>>

\* an optional object-valued field of an entity (dueDateTime, body): undefined,
\* or an object, of which `value` is the one member read (dateTime, content)
NoObject == [defined |-> FALSE, value |-> Missing]
Object(value) == [defined |-> TRUE, value |-> value]
TypeError == <<"TypeError">>

\* faulty variant: `o.member`, which throws when o is undefined
Member(o) == IF o.defined THEN o.value ELSE TypeError

\* lines 110, 117: `o?.member`
OptionalMember(o) == IF o.defined THEN o.value ELSE Missing

Letters ==
    [Completed |-> <<"C", "o", "m", "p", "l", "e", "t", "e", "d">>,
     InProgress |-> <<"I", "n", " ", "P", "r", "o", "g", "r", "e", "s", "s">>,
     CreateList |-> <<"C", "r", "e", "a", "t", "e", " ", "a", " ", "n", "e", "w", " ",
                      "l", "i", "s", "t", ".", ".", ".">>,
     Due |-> <<" ", "D", "U", "E", " ">>,
     InvalidDate |-> <<"I", "n", "v", "a", "l", "i", "d", " ", "D", "a", "t", "e">>]

\* the due timestamps an entity may carry, and the locales of the host
DateTimes == {<<"2", "0", "2", "1", "-", "0", "3", "-", "0", "4">>, <<"s", "o", "o", "n">>}
Locales == {"en-US", "de-DE"}

\* line 111: new Date(dateTime).toLocaleDateString(); an unparsable timestamp
\* gives the text 'Invalid Date', it does not throw
toLocaleDateString(dateTime, locale) ==
    IF Len(dateTime) = 10 /\ dateTime[5] = "-" /\ dateTime[8] = "-"
    THEN LET year == SubSeq(dateTime, 1, 4)
             month == IF dateTime[6] = "0" THEN <<dateTime[7]>> ELSE SubSeq(dateTime, 6, 7)
             day == IF dateTime[9] = "0" THEN <<dateTime[10]>> ELSE SubSeq(dateTime, 9, 10)
         IN  IF locale = "en-US" THEN month \o <<"/">> \o day \o <<"/">> \o year
             ELSE day \o <<".">> \o month \o <<".">> \o year
    ELSE Letters.InvalidDate

Faulted == [faulted |-> TRUE]

\* lines 105-132: the tree item of a task
TaskTreeItem(element, locale) ==
    LET title == OrEmpty(element.entity.title)
        dateTime == OptionalMember(element.entity.dueDateTime)
        content == OptionalMember(element.entity.body)
        dueStr == Letters.Due \o toLocaleDateString(dateTime, locale) \o <<" ">>
        spaced == title \o <<" ", " ">>
        status == IF element.entity.status = "completed" THEN "completed" ELSE "notcompleted"
        importance == IF element.entity.importance = "high" THEN "starred" ELSE "notstarred"
    IN  IF TypeError \in {dateTime, content} THEN Faulted
        ELSE [faulted |-> FALSE,
              label |-> IF Truthy(dateTime) THEN spaced \o dueStr ELSE title,
              highlights |-> IF Truthy(dateTime)
                             THEN << <<Len(spaced), Len(spaced) + Len(dueStr)>> >>
                             ELSE <<>>,
              collapsibleState |-> "None",
              contextValue |-> <<element.nodeType, "-", status, " ",
                                 element.nodeType, "-", importance>>,
              tooltip |-> <<"*">> \o title \o <<"*">>
                            \o (IF Truthy(content) THEN <<"\n", "\n">> \o content ELSE <<>>)]

\* lines 91-147: the tree item of any node
TreeItemOf(element, locale) ==
    CASE element.nodeType = "create-list" ->
           [faulted |-> FALSE, label |-> Letters.CreateList, highlights |-> <<>>,
            command |-> "createList"]
      [] element.nodeType = "list" ->
           [faulted |-> FALSE, label |-> OrEmpty(element.entity.displayName),
            highlights |-> <<>>, collapsibleState |-> "Collapsed",
            contextValue |-> <<element.nodeType>>]
      [] element.nodeType = "task" -> TaskTreeItem(element, locale)
      [] element.nodeType = "status" ->
           LET statusLabel ==
                   <<" ">> \o (IF element.statusType = TaskStatusType.completed
                               THEN Letters.Completed ELSE Letters.InProgress) \o <<" ">>
           IN  [faulted |-> FALSE, label |-> statusLabel,
                highlights |-> << <<0, Len(statusLabel)>> >>,
                collapsibleState |-> IF element.statusType = TaskStatusType.completed
                                     THEN "Collapsed" ELSE "Expanded"]

NoTreeItem == [rendered |-> FALSE, element |-> Undefined, item |-> Faulted]
ToRender(element) == [rendered |-> FALSE, element |-> element, item |-> Faulted]

\* line 91: the host asks for the tree item of the element it holds
getTreeItem ==
    /\ ~treeItem.rendered /\ treeItem.element # Undefined
    /\ \E locale \in Locales :
         treeItem' = [rendered |-> TRUE, element |-> treeItem.element,
                      item |-> TreeItemOf(treeItem.element, locale)]
    /\ UNCHANGED <<provider, commands, panel>>

----------------------------------------------------------------------------
(* The task details panel: src/webviews/taskDetailsView/main.js *)

Ready == [command |-> "ready"]
\* lines 56-65: the 'update' message
Update(p) ==
    [command |-> "update",
     body |-> [title |-> p.title, note |-> p.body, id |-> p.currentNode.entity.id,
               listId |-> p.currentNode.parent.entity.id, dueDate |-> p.dueDateInput]]

\* the document before the script runs: empty fields, no click handler, and
\* both buttons hidden, which is what onkeydown (line 49) takes for granted
Markup ==
    [title |-> <<>>, body |-> <<>>, dueDateInput |-> <<>>, updateHidden |-> TRUE,
     cancelHidden |-> TRUE, remindHidden |-> TRUE, onclick |-> FALSE]

\* lines 7, 20: the script's variables over the fresh document: the state kept
\* by vscode.setState, currentNode, and the event being handled
Script(state, event) ==
    Markup @@ [state |-> state, currentNode |-> Undefined, event |-> event,
               posted |-> <<>>, threw |-> FALSE]

\* an event reaches the panel: what the handler of the event before it posted
\* and whether it threw is history
Handling(p, event) == [p EXCEPT !.event = event, !.posted = <<>>, !.threw = FALSE]

\* lines 31-45: changeTaskNode; line 35 reads taskNode.entity.body.content and
\* throws a TypeError when the task has no body, after lines 32-34 have run
changeTaskNode(p, taskNode) ==
    LET set == [p EXCEPT !.state = taskNode, !.currentNode = taskNode,
                         !.title = taskNode.entity.title]
    IN  IF ~taskNode.entity.body.defined THEN [set EXCEPT !.threw = TRUE]
        ELSE [set EXCEPT !.body = taskNode.entity.body.value,
                         !.updateHidden = TRUE, !.cancelHidden = TRUE,
                         !.remindHidden = ~taskNode.entity.reminderDateTime.defined]

\* lines 5-87: the script runs on the fresh document; a throw of changeTaskNode
\* ends it before line 87
Startup(initialState) ==
    LET p == Script(initialState, "startup")
        restored == changeTaskNode(p, initialState)
    IN  IF initialState = Undefined THEN [p EXCEPT !.posted = <<Ready>>]
        ELSE IF restored.threw THEN restored
        ELSE [restored EXCEPT !.posted = <<Ready>>]

\* lines 47-76: onkeydown shows the buttons and installs their click handlers,
\* if the update button is hidden
onkeydown(p) ==
    IF p.updateHidden
    THEN [p EXCEPT !.updateHidden = FALSE, !.cancelHidden = FALSE, !.onclick = TRUE]
    ELSE p

\* lines 52-67: the click handler of the update button
updateButtonOnclick(p) ==
    LET hidden == [p EXCEPT !.updateHidden = TRUE, !.cancelHidden = TRUE]
        posted == [hidden EXCEPT !.posted = <<Update(p)>>,
                                 !.currentNode.entity.title = p.title]
    IN  IF p.currentNode = Undefined THEN [hidden EXCEPT !.threw = TRUE]
        ELSE IF ~p.currentNode.entity.body.defined THEN [posted EXCEPT !.threw = TRUE]
        ELSE [posted EXCEPT !.currentNode.entity.body.value = p.body]

\* lines 69-74: the click handler of the cancel button
cancelButtonOnclick(p) ==
    LET hidden == [p EXCEPT !.updateHidden = TRUE, !.cancelHidden = TRUE]
        titled == [hidden EXCEPT !.title = p.currentNode.entity.title]
    IN  IF p.currentNode = Undefined THEN [hidden EXCEPT !.threw = TRUE]
        ELSE IF ~p.currentNode.entity.body.defined THEN [titled EXCEPT !.threw = TRUE]
        ELSE [titled EXCEPT !.body = p.currentNode.entity.body.value]

\* the task nodes the extension may send, and the texts the user may type
PanelTexts == {<<"a">>, <<"b">>}
PanelNodes ==
    {TaskNode([id |-> t, title |-> title, body |-> body, reminderDateTime |-> reminder],
              ListNode(ListEntity(ListOf(t)))) :
        t \in {"T1", "T4"}, title \in PanelTexts,
        body \in {NoObject} \cup {Object(c) : c \in {<<>>, <<"a">>}},
        reminder \in {NoObject, Object(<<"r">>)}}

NoPanel == Script(Undefined, "none")

\* lines 26-29: a message of the extension arrives
message(taskNode) ==
    /\ panel' = changeTaskNode(Handling(panel, "message"), taskNode)
    /\ UNCHANGED <<provider, commands, treeItem>>

\* line 78: a key goes down in the title field, which then holds `value`
titleOnkeydown(value) ==
    /\ panel' = [onkeydown(Handling(panel, "edit")) EXCEPT !.title = value]
    /\ UNCHANGED <<provider, commands, treeItem>>

\* line 79: a key goes down in the body field, which then holds `value`
bodyOnkeydown(value) ==
    /\ panel' = [onkeydown(Handling(panel, "edit")) EXCEPT !.body = value]
    /\ UNCHANGED <<provider, commands, treeItem>>

\* line 80: the date picker has put `value` in the due-date field
dueDateInputOnchange(value) ==
    /\ panel' = onkeydown([Handling(panel, "edit") EXCEPT !.dueDateInput = value])
    /\ UNCHANGED <<provider, commands, treeItem>>

\* the user clicks the update button, which is visible
clickUpdate ==
    /\ ~panel.updateHidden
    /\ panel' = IF panel.onclick THEN updateButtonOnclick(Handling(panel, "update"))
                ELSE Handling(panel, "update")
    /\ UNCHANGED <<provider, commands, treeItem>>

\* the user clicks the cancel button, which is visible
clickCancel ==
    /\ ~panel.cancelHidden
    /\ panel' = IF panel.onclick THEN cancelButtonOnclick(Handling(panel, "cancel"))
                ELSE Handling(panel, "cancel")
    /\ UNCHANGED <<provider, commands, treeItem>>

\* lines 82-87: the host rebuilds the panel; the script runs again, on the
\* state that vscode.setState has kept
reload ==
    /\ panel' = Startup(panel.state)
    /\ UNCHANGED <<provider, commands, treeItem>>

----------------------------------------------------------------------------
(* Specification *)

Init ==
    /\ remote = InitRemote
    /\ calls = <<>>
    /\ requests = <<>>
    /\ didChangeTreeData = <<>>
    /\ known = {}
    /\ registered = Constructed.registered
    /\ refreshCommand = Constructed.refreshCommand
    /\ disposed = FALSE
    /\ invoked = NoCommand
    /\ treeItem = NoTreeItem
    /\ panel = NoPanel

Next ==
    \/ UNCHANGED outside /\ CanStart /\ \E element \in {Undefined} \cup Known : getChildren(element)
    \/ UNCHANGED outside /\ \E c \in 1..Len(calls), client \in BOOLEAN : getChildrenResume(c, client)
    \/ UNCHANGED outside /\ \E r \in 1..Len(requests) : getAllResolves(r)
    \/ UNCHANGED outside /\ \E r \in 1..Len(requests) : getAllRejects(r)
    \/ UNCHANGED outside /\ CanStart /\ \E nodes \in Batches : changeCompletedState(nodes)
    \/ UNCHANGED outside /\ CanStart /\ \E nodes \in Batches : changeImportanceState(nodes)
    \/ UNCHANGED outside /\ \E c \in 1..Len(calls), client \in BOOLEAN : changeStateResume(c, client)
    \/ UNCHANGED outside /\ \E r \in 1..Len(requests) : patchResolves(r)
    \/ UNCHANGED outside /\ \E r \in 1..Len(requests) : patchRejects(r)
    \/ UNCHANGED outside /\ \E c \in 1..Len(calls) : take(c)

Spec == Init /\ [][Next]_vars

\* Every await that can be resumed is resumed: the event loop runs the
\* continuation of a settled promise, and here every request is answered.
Progress ==
    \/ UNCHANGED outside /\ \E c \in 1..Len(calls), client \in BOOLEAN : getChildrenResume(c, client)
    \/ UNCHANGED outside /\ \E c \in 1..Len(calls), client \in BOOLEAN : changeStateResume(c, client)
    \/ UNCHANGED outside /\ \E r \in 1..Len(requests) : getAllResolves(r)
    \/ UNCHANGED outside /\ \E r \in 1..Len(requests) : getAllRejects(r)
    \/ UNCHANGED outside /\ \E r \in 1..Len(requests) : patchResolves(r)
    \/ UNCHANGED outside /\ \E r \in 1..Len(requests) : patchRejects(r)

FairSpec == Spec /\ WF_vars(Progress)

----------------------------------------------------------------------------
(* A host that re-expands before every toggle: it expands the root, a child *)
(* of the root and then, MaxRounds times, expands a status group and        *)
(* toggles one task node of the result just handed to it (the same task     *)
(* and the same toggle every round). It keeps every outcome.                *)

FreshCanStart ==
    /\ Len(calls) < 2 + 2 * MaxRounds
    /\ \A c \in 1..Len(calls) : Finished(c)

FreshElements ==
    CASE Len(calls) = 0 -> {Undefined}
      [] Len(calls) = 1 -> Handed(1)
      [] OTHER -> Handed(2)

FreshExpand ==
    /\ FreshCanStart
    /\ Len(calls) < 2 \/ Len(calls) % 2 = 0
    /\ \E element \in FreshElements : getChildren(element)

FreshTargets(op) ==
    IF Len(calls) > 2 /\ Len(calls) % 2 = 1
    THEN {n \in Handed(Len(calls)) :
            /\ n.nodeType = "task"
            /\ Len(calls) > 3 => calls[4].op = op /\ n.entity.id = calls[4].nodes[1].entity.id}
    ELSE {}

FreshNext ==
    \/ UNCHANGED outside /\ FreshExpand
    \/ UNCHANGED outside /\ FreshCanStart /\ \E n \in FreshTargets("changeCompletedState") : changeCompletedState(<<n>>)
    \/ UNCHANGED outside /\ FreshCanStart /\ \E n \in FreshTargets("changeImportanceState") : changeImportanceState(<<n>>)
    \/ Progress

FreshSpec == Init /\ [][FreshNext]_vars

----------------------------------------------------------------------------
(* A host that has expanded the root, the first list and its In Progress   *)
(* group, has taken every outcome, and now invokes one toggle command on   *)
(* the task nodes it holds; the provider may be disposed at any time.      *)

HostLists == <<"L1", "L2">>
HostTree ==
    LET lists == [i \in 1..Len(HostLists) |-> ListEntity(HostLists[i])]
        element == ListNode(lists[1])
    IN  Range(RootNodes(lists)) \cup Range(StatusNodes(element))
          \cup Range(TaskNodes(SelectTasks(1, element.entity.id, "ne", InitRemote), element))

CommandInit ==
    /\ remote = InitRemote
    /\ calls = [i \in 1..(MaxCalls - 1) |-> Taken]
    /\ requests = <<>>
    /\ didChangeTreeData = <<>>
    /\ known = HostTree
    /\ registered = Constructed.registered
    /\ refreshCommand = Constructed.refreshCommand
    /\ disposed = FALSE
    /\ invoked = NoCommand
    /\ treeItem = NoTreeItem
    /\ panel = NoPanel

CommandNext ==
    \/ CanStart /\ \E node \in KnownTasks, nodes \in Selections : complete(node, nodes)
    \/ CanStart /\ \E node \in KnownTasks, nodes \in Selections : uncomplete(node, nodes)
    \/ CanStart /\ \E node \in KnownTasks, nodes \in Selections : star(node, nodes)
    \/ CanStart /\ \E node \in KnownTasks, nodes \in Selections : unstar(node, nodes)
    \/ dispose
    \/ UNCHANGED outside /\ \E c \in 1..Len(calls), client \in BOOLEAN : changeStateResume(c, client)
    \/ UNCHANGED outside /\ \E r \in 1..Len(requests) : patchResolves(r)
    \/ UNCHANGED outside /\ \E r \in 1..Len(requests) : patchRejects(r)
    \/ UNCHANGED outside /\ \E c \in 1..Len(calls) : take(c)

CommandSpec == CommandInit /\ [][CommandNext]_vars

----------------------------------------------------------------------------
(* The host renders one node. The node is drawn from the nodes an           *)
(* expansion can return, their entities from the optional fields a list or  *)
(* a task may or may not carry.                                             *)

Alphabet == {"a", "b"}
Strings == UNION {[1..k -> Alphabet] : k \in 0..MaxTitle}
Texts == {Missing} \cup Strings
OptionalObjects(values) == {NoObject} \cup {Object(v) : v \in values}

RenderedLists == {ListNode([id |-> "L1", displayName |-> n]) : n \in Texts}
RenderedTasks ==
    {TaskNode([id |-> "T1", title |-> title, status |-> status, importance |-> "normal",
               dueDateTime |-> due, body |-> body],
              ListNode([id |-> "L1", displayName |-> Missing])) :
        title \in Texts, status \in {"notStarted", "completed"},
        due \in OptionalObjects({Missing, <<>>} \cup DateTimes),
        body \in OptionalObjects({Missing, <<>>, <<"n">>})}
RenderedElements ==
    {CreateListNode} \cup RenderedLists \cup RenderedTasks
      \cup {StatusNode(TaskStatusType[g], g = "completed", l) :
               g \in DOMAIN TaskStatusType, l \in RenderedLists}

LabelInit ==
    /\ remote = InitRemote
    /\ calls = <<>>
    /\ requests = <<>>
    /\ didChangeTreeData = <<>>
    /\ known = {}
    /\ registered = Constructed.registered
    /\ refreshCommand = Constructed.refreshCommand
    /\ disposed = FALSE
    /\ invoked = NoCommand
    /\ treeItem \in {ToRender(element) : element \in RenderedElements}
    /\ panel = NoPanel

LabelNext == getTreeItem

LabelSpec == LabelInit /\ [][LabelNext]_vars

----------------------------------------------------------------------------
(* A host that holds the same expanded tree and invokes the refresh command *)
(* MaxRefresh times, on the whole tree or on a node it holds; the provider  *)
(* may be disposed at any time.                                             *)

RefreshNext ==
    \/ /\ Len(didChangeTreeData) < MaxRefresh
       /\ \E element \in {Undefined} \cup Known : refreshList(element)
    \/ dispose

RefreshSpec == CommandInit /\ [][RefreshNext]_vars

----------------------------------------------------------------------------
(* The task details panel, from its first load: the extension sends task   *)
(* nodes, the user edits the fields and clicks the buttons, and the host   *)
(* rebuilds the panel.                                                     *)

PanelInit ==
    /\ remote = InitRemote
    /\ calls = <<>>
    /\ requests = <<>>
    /\ didChangeTreeData = <<>>
    /\ known = {}
    /\ registered = Constructed.registered
    /\ refreshCommand = Constructed.refreshCommand
    /\ disposed = FALSE
    /\ invoked = NoCommand
    /\ treeItem = NoTreeItem
    /\ panel = Startup(Undefined)

PanelNext ==
    \/ \E taskNode \in PanelNodes : message(taskNode)
    \/ \E value \in PanelTexts : titleOnkeydown(value)
    \/ \E value \in PanelTexts : bodyOnkeydown(value)
    \/ \E value \in PanelTexts : dueDateInputOnchange(value)
    \/ clickUpdate
    \/ clickCancel
    \/ reload

PanelSpec == PanelInit /\ [][PanelNext]_vars

----------------------------------------------------------------------------
(* A host that never re-expands: it expands the root, a child of the root  *)
(* and a status group, and then toggles one task node of that result       *)
(* MaxRounds times over (the same node and the same toggle every time,     *)
(* once or twice in the batch). It keeps every outcome.                    *)

StaleCanStart ==
    /\ Len(calls) < 3 + MaxRounds
    /\ \A c \in 1..Len(calls) : Finished(c)

StaleExpand ==
    /\ StaleCanStart
    /\ Len(calls) < 3
    /\ \E element \in FreshElements : getChildren(element)

StaleTargets(op) ==
    IF Len(calls) > 2
    THEN {n \in Handed(3) :
            /\ n.nodeType = "task"
            /\ Len(calls) > 3 => calls[4].op = op /\ n = calls[4].nodes[1]}
    ELSE {}

StaleBatches(op) == UNION {{<<n>>, <<n, n>>} : n \in StaleTargets(op)}

StaleNext ==
    \/ UNCHANGED outside /\ StaleExpand
    \/ UNCHANGED outside /\ StaleCanStart
         /\ \E nodes \in StaleBatches("changeCompletedState") : changeCompletedState(nodes)
    \/ UNCHANGED outside /\ StaleCanStart
         /\ \E nodes \in StaleBatches("changeImportanceState") : changeImportanceState(nodes)
    \/ Progress

StaleSpec == Init /\ [][StaleNext]_vars

----------------------------------------------------------------------------
(* Properties *)

Toggles == {c \in 1..Len(calls) : IsToggle(c)}
Expansions == {c \in 1..Len(calls) : calls[c].op = "getChildren"}
ExpansionsOf(nodeType) == {c \in Expansions : calls[c].element.nodeType = nodeType}
ReqOf(c, i) == {r \in RequestsOf(c, requests) : requests[r].idx = i}
ReqIn(c, state) == {r \in RequestsOf(c, requests) : requests[r].state = state}
EventsOf(c) == {e \in 1..Len(didChangeTreeData) : didChangeTreeData[e].call = c}
EventsFor(c, i) == {e \in EventsOf(c) : didChangeTreeData[e].idx = i}
DistinctTasks(nodes) ==
    \A i, j \in 1..Len(nodes) : i # j => nodes[i].entity.id # nodes[j].entity.id

\* C1: in a batched toggle, every task whose own patch has succeeded has fired
\* its own invalidation signal, carrying its parent list node, whatever
\* happened to the other patches of the batch and in whatever order.
BatchIndependence ==
    \A c \in Toggles : \A r \in ReqIn(c, "ok") :
        \E e \in EventsFor(c, requests[r].idx) :
            didChangeTreeData[e].element = calls[c].nodes[requests[r].idx].parent

\* a batch of 3 tasks whose 2nd patch failed: the 1st and the 3rd have fired
BatchIndependenceWitness ==
    \E c \in Toggles :
        /\ Len(calls[c].nodes) = 3 /\ DistinctTasks(calls[c].nodes)
        /\ calls[c].pc = "rejected"
        /\ \E r \in ReqOf(c, 2) : requests[r].state = "failed"
        /\ \E r \in ReqOf(c, 1) : requests[r].state = "ok"
        /\ \E r \in ReqOf(c, 3) : requests[r].state = "ok"
        /\ EventsFor(c, 1) # {} /\ EventsFor(c, 3) # {} /\ EventsFor(c, 2) = {}

\* C2: every invalidation signal of a toggle was fired for a target whose own
\* patch has returned successfully, and carries that target's parent list
\* node: never no node at all, never for a failed or an unanswered patch.
ScopedInvalidationAfterSuccess ==
    \A e \in 1..Len(didChangeTreeData) :
        LET ev == didChangeTreeData[e]
        IN  /\ ev.call \in Toggles
            /\ ev.idx \in 1..Len(calls[ev.call].nodes)
            /\ ev.element # Undefined
            /\ ev.element = calls[ev.call].nodes[ev.idx].parent
            /\ ev.element.nodeType = "list"
            /\ \E r \in ReqOf(ev.call, ev.idx) : requests[r].state = "ok"

\* one target has fired while another patch of the batch failed and a third
\* is still unanswered
ScopedInvalidationWitness ==
    \E c \in Toggles :
        /\ EventsOf(c) # {}
        /\ ReqIn(c, "failed") # {}
        /\ ReqIn(c, "pending") # {}
        /\ \A r \in ReqIn(c, "failed") \cup ReqIn(c, "pending") : EventsFor(c, requests[r].idx) = {}

----------------------------------------------------------------------------
OkPatches(t, f) ==
    {r \in 1..Len(requests) :
        /\ requests[r].method = "PATCH" /\ requests[r].state = "ok"
        /\ requests[r].path[4] = t /\ f \in DOMAIN requests[r].body}

\* C3: for a host that re-expands the status group before each toggle, two
\* successful ToggleCompletion patches of the same task leave its remote
\* status as it was at the start, and two successful ToggleImportance patches
\* leave its importance as it was.
ToggleTwiceRestores ==
    \A t \in TaskIds : \A f \in {"status", "importance"} :
        Cardinality(OkPatches(t, f)) = 2 => remote[t][f] = InitRemote[t][f]

\* a task whose completion was toggled twice, each time after a fresh fetch
ToggleTwiceWitness ==
    \E t \in TaskIds :
        /\ Cardinality(OkPatches(t, "status")) = 2
        /\ Len(calls) = 6 /\ calls[6].pc = "resolved"
        /\ calls[4].nodes[1].entity.status # calls[6].nodes[1].entity.status

----------------------------------------------------------------------------
\* C4: once a toggle handles the completion of any of its patches, the patch
\* of every target of the batch has been issued (exactly one each); and when
\* all have been answered, the signals fired are those of the successful
\* targets, one each, whatever the order of the answers.
ConcurrentLaunch ==
    \A c \in Toggles :
        /\ (EventsOf(c) # {} \/ ReqIn(c, "ok") # {} \/ ReqIn(c, "failed") # {})
              => \A i \in 1..Len(calls[c].nodes) : Cardinality(ReqOf(c, i)) = 1
        /\ (calls[c].client = "client" /\ ReqIn(c, "pending") = {})
              => /\ {didChangeTreeData[e].idx : e \in EventsOf(c)}
                        = {requests[r].idx : r \in ReqIn(c, "ok")}
                 /\ Cardinality(EventsOf(c)) = Cardinality(ReqIn(c, "ok"))

\* the 3rd patch of a batch of 3 is answered while the 1st and 2nd are in flight
ConcurrentLaunchWitness ==
    \E c \in Toggles :
        /\ Len(calls[c].nodes) = 3
        /\ \E r \in ReqOf(c, 3) : requests[r].state = "ok"
        /\ \E r \in ReqOf(c, 1) : requests[r].state = "pending"
        /\ \E r \in ReqOf(c, 2) : requests[r].state = "pending"
        /\ EventsFor(c, 3) # {}

----------------------------------------------------------------------------
\* C5: with a client, a root expansion that the service answers with N lists
\* returns N+1 nodes: the N list nodes in the service's order, each wrapping
\* its entity, then the create-list sentinel, which occurs once, last.
RootExpansion ==
    \A c \in Expansions :
        (calls[c].element = Undefined /\ calls[c].client = "client" /\ calls[c].pc = "resolved")
        => \E r \in ReqOf(c, 1) :
             LET lists == requests[r].response
                 nodes == calls[c].result.nodes
             IN  /\ calls[c].result.defined
                 /\ Len(nodes) = Len(lists) + 1
                 /\ \A i \in 1..Len(lists) : nodes[i] = [nodeType |-> "list", entity |-> lists[i]]
                 /\ nodes[Len(nodes)] = [nodeType |-> "create-list"]
                 /\ Cardinality({i \in 1..Len(nodes) : nodes[i].nodeType = "create-list"}) = 1

\* a root expansion answered with two lists, L2 before L1
RootExpansionWitness ==
    \E c \in Expansions :
        /\ calls[c].element = Undefined /\ calls[c].pc = "resolved"
        /\ Len(calls[c].result.nodes) = 3
        /\ calls[c].result.nodes[1].entity.id = "L2"

\* a root expansion answered with no list at all
RootExpansionEmpty ==
    \E c \in Expansions :
        /\ calls[c].element = Undefined /\ calls[c].pc = "resolved"
        /\ calls[c].client = "client"
        /\ Len(calls[c].result.nodes) = 1

----------------------------------------------------------------------------
IsTaskQuery(path) == Len(path) = 5 /\ path[3] = "/tasks?$filter= status "
Suspended(c) == calls[c].pc \in {"getClient", "getAll", "all"}

\* C6 as stated: expanding a list node returns synchronously, without any
\* suspension point and without any gateway call, exactly the two status
\* groups InProgress then Completed; a task query is issued only when a
\* status group is expanded.
ListExpansionSynchronous ==
    /\ \A c \in ExpansionsOf("list") :
          /\ ~Suspended(c)
          /\ RequestsOf(c, requests) = {}
          /\ Len(calls[c].result.nodes) = 2
          /\ calls[c].result.nodes[1].statusType = TaskStatusType.inProgress
          /\ calls[c].result.nodes[2].statusType = TaskStatusType.completed
    /\ \A r \in 1..Len(requests) :
          IsTaskQuery(requests[r].path) => requests[r].call \in ExpansionsOf("status")

\* C6 as amended: expanding a list node suspends once, on getClient, and
\* nowhere else; it issues no gateway call and never fails; with a client it
\* returns exactly the two status groups InProgress then Completed (without
\* one, nothing); a task query is issued only when a status group is expanded.
ListExpansionNetworkFree ==
    /\ \A c \in ExpansionsOf("list") :
          /\ calls[c].pc \in {"getClient", "resolved"}
          /\ RequestsOf(c, requests) = {}
          /\ (calls[c].pc = "resolved" /\ calls[c].client = "client")
                => /\ calls[c].result.defined
                   /\ Len(calls[c].result.nodes) = 2
                   /\ \A i \in 1..2 : calls[c].result.nodes[i].nodeType = "status"
                   /\ calls[c].result.nodes[1].statusType = TaskStatusType.inProgress
                   /\ calls[c].result.nodes[2].statusType = TaskStatusType.completed
          /\ (calls[c].pc = "resolved" /\ calls[c].client = "undefined")
                => calls[c].result = NoResult
    /\ \A r \in 1..Len(requests) :
          IsTaskQuery(requests[r].path) => requests[r].call \in ExpansionsOf("status")

\* a list expansion has returned its two groups and no request is in the log
ListExpansionWitness ==
    \E c \in ExpansionsOf("list") :
        /\ calls[c].pc = "resolved" /\ calls[c].client = "client"
        /\ Len(calls[c].result.nodes) = 2
        /\ requests = <<>>

----------------------------------------------------------------------------
\* the list whose expansion produced the status group, kept by its closure
GroupList(element) == element.getChildren.element.entity.id

\* C7: every request of the expansion of a status group of list L is a task
\* query on L, filtered with ne 'completed' for the InProgress group and with
\* eq 'completed' for the Completed group; it is the only request of the
\* expansion.
StatusFilterCorrect ==
    \A c \in ExpansionsOf("status") :
        LET element == calls[c].element
            inProgress == element.statusType = TaskStatusType.inProgress
        IN  /\ element.statusType \in {TaskStatusType.inProgress, TaskStatusType.completed}
            /\ \A r \in RequestsOf(c, requests) :
                  /\ requests[r].method = "GET"
                  /\ requests[r].path =
                        <<"/me/todo/lists/", GroupList(element), "/tasks?$filter= status ",
                          IF inProgress THEN "ne" ELSE "eq", " 'completed'">>
            /\ calls[c].pc \in {"getAll", "rejected"} \/ calls[c].result.defined
                  => RequestsOf(c, requests) # {}

\* the Completed group of L2 was expanded and handed back its completed task
StatusFilterWitness ==
    \E c \in ExpansionsOf("status") :
        /\ calls[c].element.statusType = TaskStatusType.completed
        /\ GroupList(calls[c].element) = "L2"
        /\ calls[c].pc = "resolved"
        /\ Len(calls[c].result.nodes) = 1

\* the InProgress group of L1 was expanded and handed back its three tasks
StatusFilterInProgress ==
    \E c \in ExpansionsOf("status") :
        /\ calls[c].element.statusType = TaskStatusType.inProgress
        /\ GroupList(calls[c].element) = "L1"
        /\ Len(calls[c].result.nodes) = 3

----------------------------------------------------------------------------
\* C8: an expansion for which the client factory yielded no client returns
\* an absent result: it does not fail and it issues no gateway fetch,
\* whatever node it was asked to expand.
UnavailableClientExpansion ==
    \A c \in Expansions :
        calls[c].client = "undefined"
        => /\ calls[c].pc = "resolved"
           /\ calls[c].result = NoResult
           /\ RequestsOf(c, requests) = {}

\* a status group was expanded without a client
UnavailableClientWitness ==
    \E c \in ExpansionsOf("status") :
        calls[c].client = "undefined" /\ calls[c].pc = "resolved"

\* the root and a task node were expanded without a client
UnavailableClientOtherNodes ==
    /\ \E c \in ExpansionsOf("task") : calls[c].client = "undefined"
    /\ \E c \in 1..Len(calls) : ~Live(c)

----------------------------------------------------------------------------
\* C9: a call with a failed gateway request has failed; an expansion issues
\* at most one request; a toggle issues at most one patch per target and
\* none besides: nothing is issued again after a failure.
ErrorPropagationNoRetry ==
    \A c \in 1..Len(calls) :
        /\ ReqIn(c, "failed") # {} => calls[c].pc = "rejected"
        /\ \A i \in 1..(MaxBatch + 1) : Cardinality(ReqOf(c, i)) <= 1
        /\ c \in Expansions => Cardinality(RequestsOf(c, requests)) <= 1
        /\ c \in Toggles =>
              \A r \in RequestsOf(c, requests) : requests[r].idx \in 1..Len(calls[c].nodes)

\* a toggle has failed on its 1st patch, and its 2nd patch, answered later,
\* succeeded: each target was patched once
ErrorPropagationWitness ==
    \E c \in Toggles :
        /\ calls[c].pc = "rejected"
        /\ Len(calls[c].nodes) = 2
        /\ \E r \in ReqOf(c, 1) : requests[r].state = "failed"
        /\ \E r \in ReqOf(c, 2) : requests[r].state = "ok"
        /\ Cardinality(RequestsOf(c, requests)) = 2

\* a status-group expansion has failed on its fetch
ErrorPropagationExpansion ==
    \E c \in ExpansionsOf("status") :
        calls[c].pc = "rejected" /\ ReqIn(c, "failed") # {}

----------------------------------------------------------------------------
\* C10 as stated: a call with a gateway request that is not answered is not
\* settled, whatever became of the other requests of its batch.
HungCallNeverSettles ==
    \A c \in 1..Len(calls) : ReqIn(c, "pending") # {} => ~Settled(c)

\* while a request of a call is unanswered the call has not resolved, and it
\* has settled at all only if it is a toggle one of whose other patches failed
HungCallUnresolved ==
    \A c \in 1..Len(calls) :
        ReqIn(c, "pending") # {}
        => /\ calls[c].pc # "resolved"
           /\ Settled(c) => (c \in Toggles /\ ReqIn(c, "failed") # {})

AllSettled == \A c \in 1..Len(calls) : Live(c) => Settled(c)

\* C10 as amended: an unanswered gateway request keeps its expansion from
\* settling and its toggle from resolving; the toggle settles meanwhile only
\* by failing on another patch of the batch. When getClient and every
\* gateway request are answered, every call settles.
HungCallHangs == [](HungCallUnresolved) /\ []<>AllSettled

\* a toggle is kept waiting by one unanswered patch after the others succeeded
HungCallWitness ==
    \E c \in Toggles :
        /\ calls[c].pc = "all"
        /\ Cardinality(ReqIn(c, "pending")) = 1
        /\ Cardinality(ReqIn(c, "ok")) = 2

\* a toggle has failed while one of its patches is still unanswered
HungCallRejected ==
    \E c \in Toggles : calls[c].pc = "rejected" /\ ReqIn(c, "pending") # {}

\* C11: each of the commands complete, uncomplete, star and unstar hands its
\* toggle exactly the multi-selection when one is provided (even an empty one)
\* and the single-element batch of its node otherwise; complete and
\* uncomplete start the completion toggle, star and unstar the importance
\* toggle.
MultiSelectionDegradation ==
    \A c \in Toggles :
        /\ invoked.command \in {"complete", "uncomplete", "star", "unstar"}
        /\ invoked.nodes.provided => calls[c].nodes = invoked.nodes.nodes
        /\ ~invoked.nodes.provided => calls[c].nodes = <<invoked.node>>
        /\ invoked.command \in {"complete", "uncomplete"}
              <=> calls[c].op = "changeCompletedState"
        /\ invoked.command \in {"star", "unstar"}
              <=> calls[c].op = "changeImportanceState"

\* a command invoked without a multi-selection has patched its one node
MultiSelectionDegradationWitness ==
    \E c \in Toggles :
        /\ ~invoked.nodes.provided
        /\ Len(calls[c].nodes) = 1
        /\ calls[c].pc = "resolved"
        /\ \E r \in RequestsOf(c, requests) :
              requests[r].state = "ok" /\ requests[r].path[4] = invoked.node.entity.id

\* a command invoked with a multi-selection that leaves its node out
MultiSelectionProvided ==
    \E c \in Toggles :
        /\ invoked.nodes.provided
        /\ Len(calls[c].nodes) > 1
        /\ invoked.node \notin Range(calls[c].nodes)
        /\ calls[c].pc = "resolved"

\* a command invoked with an empty multi-selection
MultiSelectionEmpty ==
    \E c \in Toggles :
        invoked.nodes.provided /\ calls[c].nodes = <<>> /\ calls[c].pc = "resolved"

\* C12: the label of a task with a due timestamp is strictly longer than its
\* title, starts with the title and, after two spaces, ends with the due-date
\* suffix ' DUE <date> ', which is exactly the one highlighted span; the label
\* of a task without a due timestamp (no dueDateTime, no or an empty dateTime)
\* is its title (empty when the title is missing) with no highlight; and
\* rendering never faults, whatever optional field is missing.
DueDateSuffix ==
    treeItem.rendered /\ treeItem.element.nodeType = "task" =>
        LET entity == treeItem.element.entity
            title == IF entity.title = Missing THEN <<>> ELSE entity.title
            due == /\ entity.dueDateTime.defined
                   /\ entity.dueDateTime.value \notin {Missing, <<>>}
            item == treeItem.item
        IN  /\ ~item.faulted
            /\ due =>
                  /\ Len(item.label) > Len(title)
                  /\ SubSeq(item.label, 1, Len(title)) = title
                  /\ Len(item.highlights) = 1
                  /\ LET from == item.highlights[1][1]
                         to == item.highlights[1][2]
                     IN  /\ from = Len(title) + 2
                         /\ SubSeq(item.label, Len(title) + 1, from) = <<" ", " ">>
                         /\ to = Len(item.label)
                         /\ SubSeq(item.label, from + 1, from + 5) = Letters.Due
                         /\ to > from + 6
                         /\ item.label[to] = " "
            /\ ~due => item.label = title /\ item.highlights = <<>>

\* a task with a title and a due timestamp but no body has been rendered
DueDateSuffixWitness ==
    /\ treeItem.rendered /\ treeItem.element.nodeType = "task"
    /\ Len(treeItem.element.entity.title) = MaxTitle
    /\ treeItem.element.entity.dueDateTime.defined
    /\ treeItem.element.entity.dueDateTime.value \in DateTimes
    /\ ~treeItem.element.entity.body.defined
    /\ Len(treeItem.item.highlights) = 1

\* a task with no title, no dueDateTime and no body has been rendered
DueDateSuffixAbsent ==
    /\ treeItem.rendered /\ treeItem.element.nodeType = "task"
    /\ treeItem.element.entity.title = Missing
    /\ ~treeItem.element.entity.dueDateTime.defined
    /\ ~treeItem.element.entity.body.defined
    /\ treeItem.item.label = <<>>

ToggledField(c) == IF calls[c].op = "changeCompletedState" THEN "status" ELSE "importance"

OneTargetedPatchIssued ==
    \A c \in Toggles :
        calls[c].client = "client" =>
            /\ Cardinality(RequestsOf(c, requests)) = Len(calls[c].nodes)
            /\ \A i \in 1..Len(calls[c].nodes) :
                 \E r \in ReqOf(c, i) :
                     /\ requests[r].method = "PATCH"
                     /\ requests[r].path = <<"/me/todo/lists/", calls[c].nodes[i].parent.entity.id,
                                             "/tasks/", calls[c].nodes[i].entity.id>>
                     /\ DOMAIN requests[r].body = {ToggledField(c)}

OtherFieldUnchanged ==
    \A t \in TaskIds, f \in {"status", "importance"} :
        remote'[t][f] # remote[t][f] =>
            \E r \in 1..Len(requests) :
                /\ requests[r].state = "pending" /\ requests'[r].state = "ok"
                /\ requests[r].path[4] = t
                /\ ToggledField(requests[r].call) = f

ParentBackReference ==
    /\ \A c \in ExpansionsOf("status") :
         calls[c].pc = "resolved" =>
            \A i \in 1..Len(calls[c].result.nodes) :
                LET n == calls[c].result.nodes[i]
                IN  /\ n.nodeType = "task"
                    /\ n.parent = calls[c].element.getChildren.element
                    /\ n.parent.nodeType = "list"
                    /\ \A r \in RequestsOf(c, requests) :
                         requests[r].path[2] = n.parent.entity.id
                    /\ n.parent.entity.id = ListOf(n.entity.id)
    /\ \A n \in KnownTasks : n.parent.entity.id = ListOf(n.entity.id)
    /\ \A r \in 1..Len(requests) :
         requests[r].method = "PATCH" => requests[r].path[2] = ListOf(requests[r].path[4])
    /\ \A e \in 1..Len(didChangeTreeData) :
         LET ev == didChangeTreeData[e]
         IN  ev.call \in Toggles =>
                /\ ev.element = calls[ev.call].nodes[ev.idx].parent
                /\ ev.element.entity.id = ListOf(calls[ev.call].nodes[ev.idx].entity.id)

\* the Completed group of the second list has been expanded, and a task of
\* its result has been patched and has fired its signal
ParentBackReferenceWitness ==
    \E c \in Toggles, e \in 1..Len(didChangeTreeData) :
        /\ didChangeTreeData[e].call = c
        /\ didChangeTreeData[e].element.entity.id = "L2"
        /\ \E r \in ReqOf(c, didChangeTreeData[e].idx) : requests[r].path[2] = "L2"

\* the expansion of a status group has returned task nodes
ParentBackReferenceExpansion ==
    \E c \in ExpansionsOf("status") :
        calls[c].pc = "resolved" /\ Len(calls[c].result.nodes) > 1

RefreshFired ==
    invoked.command = "refreshList" =>
        /\ didChangeTreeData # <<>>
        /\ didChangeTreeData[Len(didChangeTreeData)].element = invoked.node
        /\ didChangeTreeData[Len(didChangeTreeData)].call = 0
        /\ requests = <<>>

RefreshStep ==
    invoked' # invoked \/ didChangeTreeData' # didChangeTreeData =>
        /\ invoked'.command = "refreshList"
        /\ didChangeTreeData' = Append(didChangeTreeData,
                                       [call |-> 0, idx |-> 0, element |-> invoked'.node])
        /\ UNCHANGED <<remote, calls, requests, known>>

\* C15: every invocation of the refresh command fires exactly one signal: the
\* log of fired signals grows by one entry, which carries no node when the
\* command was invoked without a node and exactly the node it was invoked
\* with otherwise; the invocation starts no call and issues no request.
RefreshCommandFires == []RefreshFired /\ [][RefreshStep]_vars

\* the refresh command has been invoked without a node and then with a task node
RefreshCommandWitness ==
    /\ Len(didChangeTreeData) = 2
    /\ didChangeTreeData[1].element = Undefined
    /\ didChangeTreeData[2].element \in KnownTasks
    /\ invoked.node = didChangeTreeData[2].element
    /\ requests = <<>>

\* C16 as stated: the panel posts exactly one 'ready' message, when its
\* script starts; any other message is an 'update' posted by a click on the
\* update button, carrying the title, note and due date of the fields and the
\* id and list id of the node received last; a cancel click, an edit and an
\* incoming task message post nothing.
PanelProtocol ==
    /\ panel.event = "startup" => panel.posted = <<Ready>>
    /\ panel.event # "startup" => Ready \notin Range(panel.posted)
    /\ panel.event \in {"message", "edit", "cancel"} => panel.posted = <<>>
    /\ panel.event = "update" =>
         \/ panel.posted = <<>>
         \/ /\ panel.state # Undefined
            /\ panel.posted =
                 <<[command |-> "update",
                    body |-> [title |-> panel.title, note |-> panel.body,
                              id |-> panel.state.entity.id,
                              listId |-> panel.state.parent.entity.id,
                              dueDate |-> panel.dueDateInput]]>>

\* the patches of completion toggles, as (request, toggled node) pairs
StatusPatches ==
    {r \in 1..Len(requests) :
        requests[r].method = "PATCH" /\ calls[requests[r].call].op = "changeCompletedState"}
PatchedNode(r) == calls[requests[r].call].nodes[requests[r].idx]

\* C17: the status a completion toggle sends is the negation of the status in
\* the node's snapshot, whatever the remote status is; so any two patches
\* for the same node, of two calls with no re-expansion in between or of one
\* batch holding the node twice, send the same status, and once two of them
\* have succeeded the task's remote status differs from its original one.
StaleSnapshotToggle ==
    /\ \A r \in StatusPatches :
         requests[r].body.status =
            (IF PatchedNode(r).entity.status = "completed" THEN "notStarted" ELSE "completed")
    /\ \A r, q \in StatusPatches :
         PatchedNode(r) = PatchedNode(q) =>
            /\ requests[r].body = requests[q].body
            /\ r # q /\ requests[r].state = "ok" /\ requests[q].state = "ok" =>
                 LET t == PatchedNode(r).entity.id
                 IN  /\ remote[t].status # InitRemote[t].status
                     /\ remote[t].status = requests[r].body.status

\* two completion toggles of the same node, one after the other, have both
\* succeeded; the second sent the status the service already held
StaleSnapshotWitness ==
    \E r, q \in StatusPatches :
        /\ requests[r].call < requests[q].call
        /\ PatchedNode(r) = PatchedNode(q)
        /\ requests[r].state = "ok" /\ requests[q].state = "ok"
        /\ calls[requests[q].call].pc = "resolved"
        /\ remote[PatchedNode(r).entity.id].status # InitRemote[PatchedNode(r).entity.id].status

\* one batch holding the same node twice has succeeded
StaleSnapshotBatch ==
    \E r, q \in StatusPatches :
        /\ requests[r].call = requests[q].call /\ r # q
        /\ PatchedNode(r) = PatchedNode(q)
        /\ requests[r].state = "ok" /\ requests[q].state = "ok"

\* C18: a toggle for which the client factory yields no client issues no
\* patch and fires no signal, and is over at once: it fails when its batch is
\* not empty and completes successfully when its batch is empty.
UnavailableClientMutation ==
    \A c \in Toggles :
        calls[c].client = "undefined" =>
            /\ RequestsOf(c, requests) = {}
            /\ EventsOf(c) = {}
            /\ calls[c].nodes # <<>> => calls[c].pc = "rejected"
            /\ calls[c].nodes = <<>> => calls[c].pc = "resolved"

\* a toggle over two tasks has failed for want of a client
UnavailableClientMutationWitness ==
    \E c \in Toggles :
        /\ calls[c].client = "undefined"
        /\ Len(calls[c].nodes) = 2
        /\ calls[c].pc = "rejected"
        /\ remote = InitRemote

\* a toggle over the empty batch has completed without a client
UnavailableClientMutationEmpty ==
    \E c \in Toggles :
        calls[c].client = "undefined" /\ calls[c].nodes = <<>> /\ calls[c].pc = "resolved"

\* C19 as stated: once the provider has been disposed, none of the five
\* commands its constructor registered is still registered.
DisposeUnregistersAll ==
    disposed => registered \cap Range(CommandIds) = {}

\* what dispose() does: it unregisters the command whose handle the field
\* holds, the one registered last, and leaves the other four registered
DisposeUnregistersLast ==
    /\ ~disposed => registered = Range(CommandIds)
    /\ disposed => registered = Range(CommandIds) \ {CommandIds[Len(CommandIds)]}

\* the provider is disposed and the refresh command has fired a signal
DisposeWitness ==
    /\ disposed
    /\ invoked.command = "refreshList"
    /\ didChangeTreeData # <<>>

\* C20 as stated: the update button and the cancel button are always both
\* hidden or both visible; both are hidden right after an incoming task
\* message, an update click or a cancel click, and both are visible right
\* after an edit (a key press in the title or the body, a due-date change);
\* after a cancel click the title and body fields hold the title and the
\* body of the current node.
PanelEditState ==
    /\ panel.updateHidden = panel.cancelHidden
    /\ panel.event \in {"message", "update", "cancel"} =>
         panel.updateHidden /\ panel.cancelHidden
    /\ panel.event = "edit" => ~panel.updateHidden /\ ~panel.cancelHidden
    /\ panel.event = "cancel" /\ panel.currentNode # Undefined =>
         /\ panel.title = panel.currentNode.entity.title
         /\ panel.currentNode.entity.body.defined
         /\ panel.body = panel.currentNode.entity.body.value

============================================================================
